---- MODULE Spec2Model ----
(***************************************************************************)
(* poster_robber: the incremental cache (df_store), the paginated fetch    *)
(* (API.iter_transactions) and the retention command (command_ccr).        *)
(*                                                                         *)
(* A DataFrame is the sequence of its rows, a row a record whose field id  *)
(* is the index (from_records(..., index="id")).  A feather file is the    *)
(* column-major table to_feather writes.  Dates are day numbers, datetimes *)
(* are ticks, TicksPerDay ticks to the day.                                *)
(***************************************************************************)
EXTENDS Integers, Sequences, FiniteSets, TLC

VARIABLES
    files,      \* file name -> feather file (exists, nrows, table)
    saved,      \* history: file name -> the frame last handed to to_feather
    last,       \* history: the process's latest df_store call (arguments, outcome)
    it,         \* the locals of the running iter_transactions generator
    resp,       \* history: the latest answer of the remote side
    requests,   \* history: the page numbers requested by the generator
    shape,      \* history: how the answers so far compare with a well-formed source
    txs,        \* the records the generator has yielded so far
    remote,     \* the remote side's transaction list and page size limit, where it keeps one
    pc,         \* where the process is: idle, tx_pages, clients, done, raised
    exc,        \* the exception that ended the process, "" for none
    args,       \* the arguments of the running command_ccr call
    out,        \* what the command printed: the retention figures
    loop        \* the locals of the running step command, and the periods it has taken

vars == <<files, saved, last, it, resp, requests, shape, txs, remote, pc, exc, args, out,
          loop>>
storeVars == <<files, saved, last>>
fetchVars == <<it, resp, requests, shape, txs, remote>>
cmdVars == <<pc, exc, args, out, loop>>

(***************************************************************************)
(* Bounds of the model.                                                    *)
(***************************************************************************)
MaxKey == 2          \* record ids are 1 .. MaxKey
MaxTime == 2         \* datetimes are 0 .. MaxTime ticks
TicksPerDay == 2     \* ticks to the day
MaxDay == 2          \* the dates of a command are days 0 .. MaxDay
MaxBatch == 2        \* a batch handed to df_store has at most MaxBatch records
MaxPerPage == 2      \* the remote side echoes a per_page of 1 .. MaxPerPage, or the one asked
MaxPageLen == 1      \* a page carries at most MaxPageLen records
MaxRequests == 3     \* a fetch makes at most MaxRequests page requests
MaxStep == 2         \* ccr-step --daily takes a step of 0 .. MaxStep days

Keys == 1 .. MaxKey
Times == 0 .. MaxTime
Days == 0 .. MaxDay

(***************************************************************************)
(* api.py: the record types.                                               *)
(***************************************************************************)
Transaction == [id : Keys, client_id : Keys, closed_at : Times]
ClientInfo == [id : Keys, activated_at : Times]

RECURSIVE SeqsUpTo(_, _)
SeqsUpTo(S, n) ==
    IF n = 0 THEN {<<>>}
    ELSE LET shorter == SeqsUpTo(S, n - 1)
         IN shorter \cup {Append(s, x) : s \in {t \in shorter : Len(t) = n - 1}, x \in S}

(***************************************************************************)
(* The durable files.                                                      *)
(***************************************************************************)
TransactionsFile == "transactions.feater"
ClientsFile == "clients.feater"
FileNames == {TransactionsFile, ClientsFile}

\* pathlib.Path(fname).exists() is false: no table.
Absent == [exists |-> FALSE, nrows |-> 0, table |-> <<>>]

\* item.model_dump(by_alias=False) for each item: the rows, under the
\* canonical field names, in the order given.
model_dump(items) == items

\* pd.DataFrame.from_records(data, index=key_field): one row per record, in
\* order, the key column as index; nothing is dropped, a repeated key stays.
from_records(data) == data

\* df.to_feather(fname): the frame as a column-major table, the index column
\* with the others (pandas >= 2.1 writes a named index).
to_feather(df) ==
    [exists |-> TRUE,
     nrows |-> Len(df),
     table |-> IF df = <<>> THEN <<>>
               ELSE [c \in DOMAIN df[1] |-> [i \in 1 .. Len(df) |-> df[i][c]]]]

\* A reader that forgets the index column and numbers the rows instead.
read_feather_reset_index(file) ==
    [i \in 1 .. file.nrows |->
        [c \in DOMAIN file.table |-> IF c = "id" THEN i - 1 ELSE file.table[c][i]]]

\* pd.read_feather(fname): the rows of the table, the index restored.
read_feather(file) ==
    [i \in 1 .. file.nrows |-> [c \in DOMAIN file.table |-> file.table[c][i]]]

\* Writing the batch alone: the loaded rows are forgotten.
concat_batch_only(df, loaded) == df

\* pd.concat([df, loaded]): the batch's rows first, the loaded rows after.
concat(df, loaded) == df \o loaded

\* keep=False: every row whose key another row has counts as a duplicate.
duplicated_keep_false(df, i) == \E j \in 1 .. Len(df) : j # i /\ df[j].id = df[i].id

\* df.index.duplicated(keep="last")[i]: a later row has the same key.
duplicated_keep_last(df, i) == \E j \in (i + 1) .. Len(df) : df[j].id = df[i].id

RECURSIVE drop_duplicated_from(_, _)
drop_duplicated_from(df, i) ==
    IF i > Len(df) THEN <<>>
    ELSE (IF duplicated_keep_last(df, i) THEN <<>> ELSE <<df[i]>>)
         \o drop_duplicated_from(df, i + 1)

\* df[~df.index.duplicated(keep="last")]: the rows no later row repeats.
drop_duplicated(df) == drop_duplicated_from(df, 1)

\* An empty frame taken for a frame: "df is None" is never true.
is_none_never(df) == FALSE

\* "df is None".
is_none(df) == ~df.some

None == [some |-> FALSE, v |-> <<>>]
Some(df) == [some |-> TRUE, v |-> df]

\* An empty batch without a file taken for an empty frame, and written.
df_store_empty_ok(file, items) ==
    LET data == model_dump(items)
        df0 == IF data # <<>> THEN Some(from_records(data)) ELSE None
        df1 == IF file.exists
               THEN IF df0.some
                    THEN Some(drop_duplicated(concat(df0.v, read_feather(file))))
                    ELSE Some(read_feather(file))
               ELSE df0
    IN  [raised |-> FALSE, file |-> to_feather(df1.v), df |-> df1.v]

\* df_store(fname, items, key_field="id") on the file as it is: whether it
\* raised, the file afterwards and the frame returned.
df_store(file, items) ==
    LET data == model_dump(items)
        df0 == IF data # <<>> THEN Some(from_records(data)) ELSE None
        df1 == IF file.exists
               THEN IF df0.some
                    THEN Some(drop_duplicated(concat(df0.v, read_feather(file))))
                    ELSE Some(read_feather(file))
               ELSE df0
    IN  IF is_none(df1)
        THEN [raised |-> TRUE, file |-> file, df |-> <<>>]
        ELSE [raised |-> FALSE, file |-> to_feather(df1.v), df |-> df1.v]

NoCall == [fname |-> "", items |-> <<>>, status |-> "none", pre |-> Absent,
           presaved |-> <<>>, ret |-> <<>>]

\* The files and their history, as one value.
Store == [files |-> files, saved |-> saved, last |-> last, raised |-> FALSE]

\* One df_store(fname, items, "id") call made on the store st: the files and
\* the history after it, and whether it raised.
call_df_store(st, fname, items) ==
    LET r == df_store(st.files[fname], items)
    IN  [files |-> [st.files EXCEPT ![fname] = r.file],
         saved |-> IF r.raised THEN st.saved ELSE [st.saved EXCEPT ![fname] = r.df],
         last |-> [fname |-> fname, items |-> items,
                   status |-> IF r.raised THEN "raised" ELSE "ok",
                   pre |-> st.files[fname], presaved |-> st.saved[fname],
                   ret |-> r.df],
         raised |-> r.raised]

SetStore(st) ==
    /\ files' = st.files
    /\ saved' = st.saved
    /\ last' = st.last

\* update_transactions(txs), called on its own.
update_transactions(batch) ==
    /\ SetStore(call_df_store(Store, TransactionsFile, batch))
    /\ UNCHANGED <<fetchVars, cmdVars>>

\* update_clients(cls), called on its own.
update_clients(batch) ==
    /\ SetStore(call_df_store(Store, ClientsFile, batch))
    /\ UNCHANGED <<fetchVars, cmdVars>>

NoIter == [state |-> "idle", per_page |-> 0, count |-> 0, from_page |-> 0]
NoResp == [status |-> "none", count |-> 0, page |-> 0, per_page |-> 0]
NoArgs == [command |-> "", api_key |-> FALSE, unload_data |-> FALSE,
           start_period |-> 0, end_period |-> 0]
NoOutput == <<>>
NoRemote == [records |-> <<>>, max_per_page |-> 0]
NoLoop == [mode |-> "", api_key |-> FALSE, unload_data |-> FALSE,
           start_period |-> 0, end_period |-> 0, step |-> 0,
           date_from |-> 0, periods |-> <<>>]

\* A fresh working directory and a process that has not been given a command.
Init ==
    /\ files = [f \in FileNames |-> Absent]
    /\ saved = [f \in FileNames |-> <<>>]
    /\ last = NoCall
    /\ it = NoIter
    /\ resp = NoResp
    /\ requests = <<>>
    /\ shape = "full"
    /\ txs = <<>>
    /\ remote = NoRemote
    /\ pc = "idle"
    /\ exc = ""
    /\ args = NoArgs
    /\ out = NoOutput
    /\ loop = NoLoop

\* The batches SpecStore merges: transaction k is of client k.
TransactionBatches == SeqsUpTo({t \in Transaction : t.client_id = t.id}, MaxBatch)
ClientBatches == SeqsUpTo(ClientInfo, MaxBatch)

\* df_store reads and writes the one file it is given, so the merges of the two
\* stores do not interact: a behaviour of SpecStore works on one store, the
\* other file staying absent.
OnlyStore(fname) == \A g \in FileNames \ {fname} : ~files[g].exists

NextStore ==
    \/ \E batch \in TransactionBatches :
          OnlyStore(TransactionsFile) /\ update_transactions(batch)
    \/ \E batch \in ClientBatches :
          OnlyStore(ClientsFile) /\ update_clients(batch)

\* The cache alone: any sequence of merges, from no file at all.
SpecStore == Init /\ [][NextStore]_vars

(***************************************************************************)
(* api.py: the remote side and the paginated fetch.                        *)
(***************************************************************************)
DefaultPerPage == 100    \* iter_transactions(..., per_page=100)
UnloadPerPage == 500     \* unload_transactions_for_date_range: per_page=500
DefaultFromPage == 1     \* iter_transactions(..., from_page=1)

\* datetime.combine(d, datetime.min.time()): midnight of day d.
to_dtime(d) == d * TicksPerDay

\* The records the remote side hands out, as it words them: transaction k,
\* of client k, closed at midnight of day 1; client k, activated on day 0.
RemoteTransaction ==
    {[transaction_id |-> k, client_id |-> k, date_close |-> to_dtime(1)] : k \in Keys}
RemoteClient ==
    {[client_id |-> k, date_activale |-> to_dtime(0)] : k \in Keys}
PageData == SeqsUpTo(RemoteTransaction, MaxPageLen)

\* parse_obj_as(Page[list[Transaction]], data): the aliases renamed.
parse_transactions(data) ==
    [i \in 1 .. Len(data) |->
        [id |-> data[i].transaction_id, client_id |-> data[i].client_id,
         closed_at |-> data[i].date_close]]

\* parse_obj_as(list[ClientInfo], data): the aliases renamed.
parse_clients(data) ==
    [i \in 1 .. Len(data) |->
        [id |-> data[i].client_id, activated_at |-> data[i].date_activale]]

Failures ==
    [status : {"http_error", "api_error", "unexpected"},
     count : {0}, page : {0}, per_page : {0}, data : {<<>>}]

\* What the remote side may answer to a request for page `page` with
\* `per_page`: an HTTP error status, an error envelope, a body that is neither
\* envelope, or a page whose count, page and per_page are whatever it says.
Answers(page, per_page) ==
    Failures
    \cup
    [status : {"ok"},
     count : (0 .. MaxPerPage + 1) \cup {per_page},
     page : {page, DefaultFromPage},
     per_page : (1 .. MaxPerPage) \cup {per_page},
     data : PageData]

\* The answers of a remote side that echoes the page and the per_page asked
\* and counts either a full page or the records it sends.
PlainAnswers(page, per_page) ==
    {a \in Answers(page, per_page) :
        a.status = "ok" =>
            /\ a.page = page
            /\ a.per_page = per_page
            /\ a.count \in {per_page, Len(a.data)}}

\* What the remote side may answer to clients.getClients.
ClientAnswers ==
    Failures
    \cup
    [status : {"ok"}, count : {0}, page : {0}, per_page : {0},
     data : SeqsUpTo(RemoteClient, MaxBatch)]

\* get_json_request: resp.raise_for_status(), then json_response(resp.json()).
\* The exception raised, "" for none.
get_json_request(answer) ==
    CASE answer.status = "http_error" -> "HTTPError"
      [] answer.status = "api_error" -> "ApiError"
      [] answer.status = "unexpected" -> "Exception"
      [] OTHER -> ""

\* Asking for the same page again.
next_page_same(page) == page

\* data.page.page + 1
next_page(page) == page + 1

\* The test of the while loop: per_page == count.
loop_test(per_page, count) == per_page = count

\* iter_transactions(date_from, date_to, from_page, per_page) called: the
\* generator's locals as its body starts (count = per_page, so the loop is
\* entered).
iter_transactions(from_page, per_page) ==
    [state |-> IF loop_test(per_page, per_page) THEN "running" ELSE "done",
     per_page |-> per_page, count |-> per_page, from_page |-> from_page]

\* The loop keeping the per_page it was called with.
iter_next_keep_per_page(g, answer) ==
    IF get_json_request(answer) # ""
    THEN [g EXCEPT !.state = "raised"]
    ELSE [state |-> IF loop_test(g.per_page, answer.count)
                    THEN "running" ELSE "done",
          per_page |-> g.per_page,
          count |-> answer.count,
          from_page |-> next_page(answer.page)]

\* One turn of the loop on the remote side's answer: get_transactions_page
\* raises, or the page's records are yielded and the locals take the
\* answer's per_page, count and page + 1, and the loop test is made again.
iter_next(g, answer) ==
    IF get_json_request(answer) # ""
    THEN [g EXCEPT !.state = "raised"]
    ELSE [state |-> IF loop_test(answer.per_page, answer.count)
                    THEN "running" ELSE "done",
          per_page |-> answer.per_page,
          count |-> answer.count,
          from_page |-> next_page(answer.page)]

\* How the answers so far compare with a source whose pages are all full
\* (count = per_page, the page number echoed) up to a last, short one.
shape_after(sh, page, answer) ==
    IF sh = "full" /\ answer.status = "ok" /\ answer.page = page
    THEN IF answer.count = answer.per_page THEN "full"
         ELSE IF answer.count < answer.per_page THEN "short"
         ELSE "other"
    ELSE "other"

TransactionsRpc == "transactions.getTransactions"
ClientsRpc == "clients.getClients"

\* One page request of the running generator and its answer.
FetchEffect(answer) ==
    /\ it.state = "running"
    /\ Len(requests) < MaxRequests
    /\ it' = iter_next(it, answer)
    /\ resp' = [status |-> answer.status, count |-> answer.count,
                page |-> answer.page, per_page |-> answer.per_page]
    /\ requests' = Append(requests, [rpc |-> TransactionsRpc, page |-> it.from_page])
    /\ shape' = shape_after(shape, it.from_page, answer)
    /\ txs' = IF get_json_request(answer) = ""
              THEN txs \o parse_transactions(answer.data) ELSE txs
    /\ UNCHANGED remote

\* A caller starts a fetch of its own.
IterStart(from_page, per_page) ==
    /\ it.state # "running"
    /\ it' = iter_transactions(from_page, per_page)
    /\ resp' = NoResp
    /\ requests' = <<>>
    /\ shape' = "full"
    /\ txs' = <<>>
    /\ UNCHANGED <<storeVars, cmdVars, remote>>

\* The caller takes the generator's next items: one page is requested.
IterNext ==
    /\ \E answer \in Answers(it.from_page, it.per_page) : FetchEffect(answer)
    /\ UNCHANGED <<storeVars, cmdVars>>

NextFetch ==
    \/ \E from_page \in {DefaultFromPage, DefaultFromPage + 1},
          per_page \in {DefaultPerPage, UnloadPerPage} :
          IterStart(from_page, per_page)
    \/ IterNext

\* The fetch alone, against a remote side that answers as it likes.
SpecFetch == Init /\ [][NextFetch]_vars

\* A remote side that keeps a list of transactions and serves it in pages of
\* at most max_per_page records.
clamp(per_page, max_per_page) == IF per_page > max_per_page THEN max_per_page ELSE per_page
slice(records, page, per_page) ==
    LET first == (page - 1) * per_page + 1
        after == IF page * per_page < Len(records) THEN page * per_page ELSE Len(records)
    IN  IF first > Len(records) THEN <<>> ELSE SubSeq(records, first, after)

\* The answer of that remote side to a request for page `page` of `per_page`
\* records: the slice, its length as count, the page asked and the page size
\* it has used.
serve(r, page, per_page) ==
    LET data == slice(r.records, page, clamp(per_page, r.max_per_page))
    IN  [status |-> "ok", count |-> Len(data), page |-> page,
         per_page |-> clamp(per_page, r.max_per_page), data |-> data]

\* The lists of the remote side: a fetch of the longest takes MaxRequests
\* requests at the largest page size.
ServerRecords == SeqsUpTo(RemoteTransaction, (MaxRequests - 1) * MaxPerPage)

InitServer ==
    /\ files = [f \in FileNames |-> Absent]
    /\ saved = [f \in FileNames |-> <<>>]
    /\ last = NoCall
    /\ it = NoIter
    /\ resp = NoResp
    /\ requests = <<>>
    /\ shape = "full"
    /\ txs = <<>>
    /\ remote \in [records : ServerRecords, max_per_page : 1 .. MaxPerPage]
    /\ pc = "idle"
    /\ exc = ""
    /\ args = NoArgs
    /\ out = NoOutput
    /\ loop = NoLoop

\* A caller starts a fetch from the first page, of a list the fetch can walk
\* within MaxRequests requests.
ServerIterStart(per_page) ==
    /\ Len(remote.records) <= (MaxRequests - 1) * clamp(per_page, remote.max_per_page)
    /\ IterStart(DefaultFromPage, per_page)

\* The caller takes the generator's next items: the remote side serves the page.
ServerIterNext ==
    /\ FetchEffect(serve(remote, it.from_page, it.per_page))
    /\ UNCHANGED <<storeVars, cmdVars>>

NextServer ==
    \/ \E per_page \in (1 .. MaxPerPage) \cup {DefaultPerPage, UnloadPerPage} :
          ServerIterStart(per_page)
    \/ ServerIterNext

\* The fetch against a remote side that serves a list: the caller draws the
\* generator until it is exhausted.
SpecServer == InitServer /\ [][NextServer]_vars /\ WF_vars(ServerIterNext)

(***************************************************************************)
(* __main__.py: the commands.                                              *)
(***************************************************************************)
NoCRR == <<>>
NaN == <<>>

\* The rows of df whose column col lies in [lo, hi).
between(df, col, lo, hi) == SelectSeq(df, LAMBDA r : r[col] >= lo /\ r[col] < hi)

\* The lookback window reaching back from start_period by the period's own
\* length instead of from its end.
lookback_start_from_end(start_period, end_period) ==
    end_period - (end_period - start_period)

\* start_period - (end_period - start_period)
lookback_start(start_period, end_period) ==
    start_period - (end_period - start_period)

\* Every client of the cohort counted as left.
left_all(CS, clients_with_buy) == CS

\* CS[~CS.index.isin(clients_with_buy)]
left(CS, clients_with_buy) == SelectSeq(CS, LAMBDA r : r.id \notin clients_with_buy)

\* command_ccr from "CS = ..." on: the frames it selects for [start, end) over
\* the clients df_cl and the transactions df_tx.
ccr_frames(df_cl, df_tx, start_period, end_period) ==
    LET previous_preiod_start == to_dtime(lookback_start(start_period, end_period))
        CS == between(df_cl, "activated_at", previous_preiod_start, to_dtime(start_period))
        tx_in_period == between(df_tx, "closed_at", to_dtime(start_period),
                                to_dtime(end_period))
        clients_with_buy == {tx_in_period[i].client_id : i \in 1 .. Len(tx_in_period)}
    IN  [CS |-> CS,
         tx_in_period |-> tx_in_period,
         clients_with_buy |-> clients_with_buy,
         cl_left |-> left(CS, clients_with_buy),
         CN |-> between(df_cl, "activated_at", to_dtime(start_period),
                        to_dtime(end_period))]

\* The division made whatever the cohort, by zero on an empty one.
crr_unguarded(n_CS, n_left) == <<n_CS - n_left, n_CS>>

\* "if len(CS) == 0: return", else (len(CS) - len(cl_left)) / len(CS), as the
\* pair <<numerator, denominator>>.
crr(n_CS, n_left) == IF n_CS = 0 THEN NoCRR ELSE <<n_CS - n_left, n_CS>>

\* The figures command_ccr prints.
ccr_report(df_cl, df_tx, start_period, end_period) ==
    LET f == ccr_frames(df_cl, df_tx, start_period, end_period)
    IN  [command |-> "ccr",
         period |-> <<start_period, end_period>>,
         clients_at_start |-> Len(f.CS),
         clients_left |-> Len(f.cl_left),
         clients_new |-> Len(f.CN),
         transactions |-> Len(f.tx_in_period),
         CRR |-> crr(Len(f.CS), Len(f.cl_left))]

\* The assertion dropped: any period is let through.
period_unchecked(start_period, end_period) == TRUE

\* assert start_period < end_period
period_ok(start_period, end_period) == start_period < end_period

\* What has been fetched is stored although the fetch raised.
store_fetched_always(st, g, yielded) ==
    IF g.state \in {"done", "raised"}
    THEN call_df_store(st, TransactionsFile, yielded)
    ELSE st

\* df_store("transactions.feater", txs, "id") as the generator txs stands
\* after a page: the list is complete and the rest of df_store runs once the
\* generator is exhausted; an exception of the generator leaves df_store
\* before it has touched the file.
store_fetched(st, g, yielded) ==
    IF g.state = "done"
    THEN call_df_store(st, TransactionsFile, yielded)
    ELSE st

\* No process is running: nothing fetched, nothing printed.
Resting == pc = "idle"

Raise(e) ==
    /\ pc' = "raised"
    /\ exc' = e

\* command_ccr returns after printing report: main() ends, or the step loop
\* takes current_end as its next start_period.
Return(lp, report, end_period) ==
    /\ exc' = ""
    /\ IF lp.mode = ""
       THEN /\ pc' = "done"
            /\ out' = report
            /\ loop' = lp
       ELSE /\ pc' = "loop"
            /\ out' = Append(out, report)
            /\ loop' = [lp EXCEPT !.start_period = end_period]

\* command_ccr(api_key, unload_data, start_period, end_period) up to its
\* first remote request, or to its end if it makes none; lp is the caller's
\* loop.
ccr_call(lp, api_key, unload_data, start_period, end_period) ==
    /\ args' = [command |-> "ccr", api_key |-> api_key, unload_data |-> unload_data,
                start_period |-> start_period, end_period |-> end_period]
    /\ IF ~period_ok(start_period, end_period)
       THEN /\ Raise("AssertionError")
            /\ it' = NoIter
            /\ loop' = lp
            /\ UNCHANGED <<out, storeVars>>
       ELSE IF unload_data
       THEN /\ IF ~api_key
               THEN Raise("AssertionError") /\ it' = NoIter
               ELSE /\ pc' = "tx_pages"
                    /\ exc' = ""
                    /\ it' = iter_transactions(DefaultFromPage, UnloadPerPage)
            /\ loop' = lp
            /\ UNCHANGED <<out, storeVars>>
       ELSE LET s1 == call_df_store(Store, TransactionsFile, <<>>)
                s2 == call_df_store(s1, ClientsFile, <<>>)
            IN  /\ it' = NoIter
                /\ IF s1.raised
                   THEN SetStore(s1) /\ Raise("Exception") /\ loop' = lp /\ UNCHANGED out
                   ELSE IF s2.raised
                   THEN SetStore(s2) /\ Raise("Exception") /\ loop' = lp /\ UNCHANGED out
                   ELSE /\ SetStore(s2)
                        /\ Return(lp, ccr_report(s2.last.ret, s1.last.ret,
                                                 start_period, end_period),
                                  end_period)

\* main() on "ccr": command_ccr(api_key, unload_data, date_from, date_to).
command_ccr(api_key, unload_data, start_period, end_period) ==
    /\ Resting
    /\ UNCHANGED <<resp, requests, shape, txs, remote>>
    /\ ccr_call(loop, api_key, unload_data, start_period, end_period)

\* unload_transactions_for_date_range: df_store draws the generator, one
\* page request at a time; after the last page it merges and persists.
unload_transactions_page(answer) ==
    /\ pc = "tx_pages"
    /\ FetchEffect(answer)
    /\ LET g == iter_next(it, answer)
           yielded == IF get_json_request(answer) = ""
                      THEN txs \o parse_transactions(answer.data) ELSE txs
           st == store_fetched(Store, g, yielded)
       IN  /\ SetStore(st)
           /\ IF g.state = "raised" THEN Raise(get_json_request(answer))
              ELSE IF st.raised THEN Raise("Exception")
              ELSE /\ pc' = IF g.state = "done" THEN "clients" ELSE "tx_pages"
                   /\ exc' = ""
    /\ UNCHANGED <<args, out, loop>>

\* unload_clients and the rest of command_ccr: get_clients, the merge, the
\* figures.  df_tx is what the latest df_store call (the transactions')
\* returned.
unload_clients(answer) ==
    /\ pc = "clients"
    /\ requests' = Append(requests, [rpc |-> ClientsRpc, page |-> 0])
    /\ resp' = [status |-> answer.status, count |-> 0, page |-> 0, per_page |-> 0]
    /\ IF get_json_request(answer) # ""
       THEN /\ Raise(get_json_request(answer))
            /\ UNCHANGED <<storeVars, out, loop>>
       ELSE LET s2 == call_df_store(Store, ClientsFile, parse_clients(answer.data))
            IN  /\ SetStore(s2)
                /\ IF s2.raised
                   THEN Raise("Exception") /\ UNCHANGED <<out, loop>>
                   ELSE Return(loop, ccr_report(s2.last.ret, last.ret,
                                                args.start_period, args.end_period),
                               args.end_period)
    /\ UNCHANGED <<it, shape, txs, remote, args>>

column_min(df, col) ==
    IF df = <<>> THEN NaN
    ELSE CHOOSE v \in {df[i][col] : i \in 1 .. Len(df)} :
            \A i \in 1 .. Len(df) : v <= df[i][col]
column_max(df, col) ==
    IF df = <<>> THEN NaN
    ELSE CHOOSE v \in {df[i][col] : i \in 1 .. Len(df)} :
            \A i \in 1 .. Len(df) : v >= df[i][col]
db_info(df, col) ==
    [count |-> Len(df), min |-> column_min(df, col), max |-> column_max(df, col)]

\* main() on "db-info": command_db_info().
command_db_info ==
    /\ Resting
    /\ UNCHANGED <<resp, requests, shape, txs, remote, loop>>
    /\ args' = [NoArgs EXCEPT !.command = "db-info"]
    /\ it' = NoIter
    /\ LET s1 == call_df_store(Store, TransactionsFile, <<>>)
           s2 == call_df_store(s1, ClientsFile, <<>>)
           tx_info == db_info(s1.last.ret, "closed_at")
       IN  IF s1.raised
           THEN SetStore(s1) /\ Raise("Exception") /\ out' = NoOutput
           ELSE IF s2.raised
           THEN /\ SetStore(s2)
                /\ Raise("Exception")
                /\ out' = [command |-> "db-info", transactions |-> tx_info,
                           clients |-> NoOutput]
           ELSE /\ SetStore(s2)
                /\ pc' = "done"
                /\ exc' = ""
                /\ out' = [command |-> "db-info", transactions |-> tx_info,
                           clients |-> db_info(s2.last.ret, "activated_at")]

(***************************************************************************)
(* The step commands.  A date is its day number, day 0 being 2024-01-01.   *)
(***************************************************************************)
\* calendar.isleap(year)
isleap(year) == year % 4 = 0 /\ (year % 100 # 0 \/ year % 400 = 0)

\* Every month taken for 30 days.
monthrange_30(year, month) == 30

\* calendar.monthrange(year, month)[1]: the days of the month.
monthrange(year, month) ==
    IF month = 2 THEN (IF isleap(year) THEN 29 ELSE 28)
    ELSE IF month \in {4, 6, 9, 11} THEN 30
    ELSE 31

\* The first calendar month the model converts.
FirstMonth == [year |-> 2023, month |-> 12]

RECURSIVE days_before(_, _)
\* The days from the first of FirstMonth to the first of (year, month).
days_before(year, month) ==
    IF year = FirstMonth.year /\ month = FirstMonth.month THEN 0
    ELSE LET py == IF month = 1 THEN year - 1 ELSE year
             pm == IF month = 1 THEN 12 ELSE month - 1
         IN  days_before(py, pm) + monthrange(py, pm)

\* dt.date(year, month, day), as a day number.
date(year, month, day) == days_before(year, month) + (day - 1) - days_before(2024, 1)

RECURSIVE fromordinal(_, _, _)
\* The calendar date of day number n, sought from (year, month) onwards.
fromordinal(n, year, month) ==
    IF n < date(year, month, 1) + monthrange(year, month)
    THEN [year |-> year, month |-> month, day |-> n - date(year, month, 1) + 1]
    ELSE IF month = 12 THEN fromordinal(n, year + 1, 1)
    ELSE fromordinal(n, year, month + 1)

year_of(d) == fromordinal(d, FirstMonth.year, FirstMonth.month).year
month_of(d) == fromordinal(d, FirstMonth.year, FirstMonth.month).month

\* d.replace(day=day)
replace_day(d, day) == date(year_of(d), month_of(d), day)

\* d + dt.timedelta(days=days)
timedelta(d, days) == d + days

\* The loop test letting the end of the range in.
loop_while_inclusive(start_period, end_period) == start_period <= end_period

\* while start_period < end_period
loop_while(start_period, end_period) == start_period < end_period

\* A period cut at the end of the range.
current_end_clipped(lp) ==
    LET e == IF lp.mode = "monthly"
             THEN timedelta(lp.start_period,
                            monthrange(year_of(lp.start_period), month_of(lp.start_period)))
             ELSE timedelta(lp.start_period, lp.step)
    IN  IF e > lp.end_period THEN lp.end_period ELSE e

\* current_end of the loop lp: the cursor plus the days of its month, or plus
\* step days.
current_end(lp) ==
    IF lp.mode = "monthly"
    THEN timedelta(lp.start_period,
                   monthrange(year_of(lp.start_period), month_of(lp.start_period)))
    ELSE timedelta(lp.start_period, lp.step)

\* main() on "ccr-step --monthly": command_ccr_step_monthly up to its loop.
command_ccr_step_monthly(api_key, unload_data, start_period, end_period) ==
    /\ Resting
    /\ loop' = [mode |-> "monthly", api_key |-> api_key, unload_data |-> unload_data,
                start_period |-> replace_day(start_period, 1),
                end_period |-> end_period, step |-> 0,
                date_from |-> start_period, periods |-> <<>>]
    /\ pc' = "loop"
    /\ UNCHANGED <<storeVars, fetchVars, exc, args, out>>

\* main() on "ccr-step --daily step": command_ccr_step_daily up to its loop.
command_ccr_step_daily(api_key, unload_data, start_period, end_period, step) ==
    /\ Resting
    /\ loop' = [mode |-> "daily", api_key |-> api_key, unload_data |-> unload_data,
                start_period |-> start_period,
                end_period |-> end_period, step |-> step,
                date_from |-> start_period, periods |-> <<>>]
    /\ pc' = "loop"
    /\ UNCHANGED <<storeVars, fetchVars, exc, args, out>>

\* One turn of the step loop: the loop test, and command_ccr on
\* [start_period, current_end) up to its first remote request or to its end;
\* the command returns when the test fails.
ccr_step ==
    /\ pc = "loop"
    /\ IF loop_while(loop.start_period, loop.end_period)
       THEN /\ ccr_call([loop EXCEPT !.periods =
                            Append(@, <<loop.start_period, current_end(loop)>>)],
                        loop.api_key, loop.unload_data,
                        loop.start_period, current_end(loop))
            /\ txs' = <<>>
            /\ shape' = "full"
            /\ UNCHANGED <<resp, requests, remote>>
       ELSE /\ pc' = "done"
            /\ exc' = ""
            /\ UNCHANGED <<storeVars, fetchVars, args, out, loop>>

\* The process ends, by returning or by the exception: what it held in memory
\* and what it printed are gone, the files stay.
process_exit ==
    /\ pc \in {"done", "raised"}
    /\ pc' = "idle"
    /\ exc' = ""
    /\ args' = NoArgs
    /\ out' = NoOutput
    /\ loop' = NoLoop
    /\ it' = NoIter
    /\ resp' = NoResp
    /\ requests' = <<>>
    /\ shape' = "full"
    /\ txs' = <<>>
    /\ last' = NoCall
    /\ UNCHANGED <<files, saved, remote>>

Next ==
    \/ \E api_key \in BOOLEAN, unload_data \in BOOLEAN,
          start_period \in Days, end_period \in Days :
          command_ccr(api_key, unload_data, start_period, end_period)
    \/ \E answer \in PlainAnswers(it.from_page, it.per_page) :
          unload_transactions_page(answer)
    \/ \E answer \in ClientAnswers : unload_clients(answer)
    \/ command_db_info
    \/ process_exit

\* The program: commands run one after another over the same directory.
Spec == Init /\ [][Next]_vars

NextStep ==
    \/ \E api_key \in BOOLEAN, unload_data \in BOOLEAN,
          start_period \in Days, end_period \in Days :
          \/ command_ccr_step_monthly(api_key, unload_data, start_period, end_period)
          \/ \E step \in 0 .. MaxStep :
                command_ccr_step_daily(api_key, unload_data, start_period, end_period, step)
    \/ ccr_step
    \/ \E answer \in PlainAnswers(it.from_page, it.per_page) :
          unload_transactions_page(answer)
    \/ \E answer \in ClientAnswers : unload_clients(answer)
    \/ process_exit

\* The step commands, with and without refresh, run one after another over
\* the same directory.
SpecStep == Init /\ [][NextStep]_vars

\* The frames a store may hold: df_store never writes an empty one.
TransactionFrames == SeqsUpTo(Transaction, MaxBatch) \ {<<>>}
ClientFrames == SeqsUpTo(ClientInfo, MaxBatch) \ {<<>>}

\* A working directory left by earlier runs: each store absent or holding
\* a frame; the process has not been given a command.
InitStores(tx_frames, cl_frames) ==
    /\ \E tx \in {None} \cup {Some(df) : df \in tx_frames},
          cl \in {None} \cup {Some(df) : df \in cl_frames} :
          /\ files = [f \in FileNames |->
                         LET o == IF f = TransactionsFile THEN tx ELSE cl
                         IN  IF o.some THEN to_feather(o.v) ELSE Absent]
          /\ saved = [f \in FileNames |-> IF f = TransactionsFile THEN tx.v ELSE cl.v]
    /\ last = NoCall
    /\ it = NoIter
    /\ resp = NoResp
    /\ requests = <<>>
    /\ shape = "full"
    /\ txs = <<>>
    /\ remote = NoRemote
    /\ pc = "idle"
    /\ exc = ""
    /\ args = NoArgs
    /\ out = NoOutput
    /\ loop = NoLoop

InitCcr == InitStores(TransactionFrames, ClientFrames)

NextCcr ==
    \/ \E api_key \in BOOLEAN, start_period \in Days, end_period \in Days :
          command_ccr(api_key, FALSE, start_period, end_period)
    \/ command_db_info
    \/ process_exit

\* The commands that make no request, over any stores earlier runs have left.
SpecCcr == InitCcr /\ [][NextCcr]_vars

\* The dates SpecPlan gives the monthly command: the first, the 15th and the
\* last day of December 2023 to March 2024.
PlanMonths == {<<2023, 12>>, <<2024, 1>>, <<2024, 2>>, <<2024, 3>>}
PlanDates ==
    {date(ym[1], ym[2], day) :
        ym \in PlanMonths, day \in {1, 15}}
    \cup {date(ym[1], ym[2], monthrange(ym[1], ym[2])) : ym \in PlanMonths}

\* The stores SpecPlan starts from: absent, or one record.
PlanTransactionFrames == {<<t>> : t \in {t \in Transaction : t.client_id = t.id}}
PlanClientFrames == {<<c>> : c \in ClientInfo}

InitPlan == InitStores(PlanTransactionFrames, PlanClientFrames)

NextPlan ==
    \/ \E api_key \in BOOLEAN, start_period \in Days, end_period \in Days :
          command_ccr(api_key, FALSE, start_period, end_period)
    \/ \E api_key \in BOOLEAN, start_period \in PlanDates, end_period \in PlanDates :
          command_ccr_step_monthly(api_key, FALSE, start_period, end_period)
    \/ \E api_key \in BOOLEAN, start_period \in Days, end_period \in 0 .. MaxDay + 1,
          step \in 0 .. MaxStep :
          command_ccr_step_daily(api_key, FALSE, start_period, end_period, step)
    \/ ccr_step
    \/ process_exit

\* The retention commands without refresh, over stores earlier runs have
\* left, the monthly command over four months.
SpecPlan == InitPlan /\ [][NextPlan]_vars

(***************************************************************************)
(* The claims about the fetch.                                             *)
(***************************************************************************)
\* C5: against a source whose answers so far were full pages echoing their
\* page number, up to a last short one, a fetch started at page 1 has
\* requested pages 1, 2, ..., n in this order, once each; it has ended if the
\* last answer was the short page and goes on if it was full.
C5_PaginationWalk ==
    (requests # <<>> /\ requests[1].page = DefaultFromPage /\ shape \in {"full", "short"}) =>
        /\ \A i \in 1 .. Len(requests) : requests[i].page = i
        /\ shape = "short" => it.state = "done"
        /\ shape = "full" => it.state = "running"

\* C5's case: pages 1 and 2 were full, page 3 was short, the fetch has ended.
C5_Witness ==
    /\ Len(requests) = 3
    /\ requests[1].page = DefaultFromPage
    /\ shape = "short"
    /\ it.state = "done"

\* C6 (as claimed): after a returned page the fetch stops exactly when the
\* answer's count is below the answer's per_page; it goes on otherwise.
C6_StopRule ==
    (resp.status = "ok" /\ it.state \in {"running", "done"}) =>
        (it.state = "done" <=> resp.count < resp.per_page)


(***************************************************************************)
(* The claims about the cache, over the latest df_store call: S is the     *)
(* frame persisted before it, B its batch.                                 *)
(***************************************************************************)
keys_of(df) == {df[i].id : i \in 1 .. Len(df)}
rows_of(df) == {df[i] : i \in 1 .. Len(df)}
rows_with(df, k) == {r \in rows_of(df) : r.id = k}
\* The row a lookup by key finds when rows repeat the key: the last one.
value_of(df, k) ==
    df[CHOOSE i \in 1 .. Len(df) :
          df[i].id = k /\ \A j \in (i + 1) .. Len(df) : df[j].id # k]
has_repeated_key(df) == \E i, j \in 1 .. Len(df) : i < j /\ df[i].id = df[j].id

S_before == last.presaved
B_batch == last.items
Persisted(fname) == read_feather(files[fname])
Merged == last.status = "ok"

\* C1 (as claimed): after a merge, every key that S and B both hold with
\* different values carries B's value, in the returned frame and on disk.
C1_MergeOverrideDirection ==
    Merged =>
        \A k \in keys_of(S_before) \cap keys_of(B_batch) :
            rows_with(S_before, k) # rows_with(B_batch, k) =>
                /\ rows_with(last.ret, k) \subseteq rows_with(B_batch, k)
                /\ rows_with(Persisted(last.fname), k) \subseteq rows_with(B_batch, k)

\* C2 (as claimed): no persisted store ever holds two records with one key.
C2_KeyUniqueness ==
    \A f \in FileNames : files[f].exists => ~has_repeated_key(Persisted(f))

\* C3 (as claimed): merging the batch just merged once more changes neither
\* the persisted store nor the returned frame.
C3_MergeIdempotence ==
    [][(/\ last.status = "ok"
        /\ last'.status = "ok"
        /\ last'.fname = last.fname
        /\ last'.items = last.items
        /\ last'.pre = files[last.fname])
       => (files' = files /\ last'.ret = last.ret)]_vars

\* C4: after a merge, every key of S that B does not hold is still there, in
\* the returned frame and on disk, and carries the value it had in S (where S
\* repeats the key, the value a lookup finds, and no row S did not hold).
C4_MergePreservesUntouched ==
    Merged =>
        \A k \in keys_of(S_before) \ keys_of(B_batch) :
            \A df \in {last.ret, Persisted(last.fname)} :
                /\ k \in keys_of(df)
                /\ value_of(df, k) = value_of(S_before, k)
                /\ rows_with(df, k) \subseteq rows_with(S_before, k)

\* C4's case: a non-empty batch merged into a store holding a key the batch
\* lacks and a key the batch holds.
C4_Witness ==
    /\ Merged
    /\ B_batch # <<>>
    /\ keys_of(S_before) \ keys_of(B_batch) # {}
    /\ keys_of(S_before) \cap keys_of(B_batch) # {}

\* C7: df_store with an empty batch and no file raises and creates no file.
C7_EmptyPersistError ==
    (last.status # "none" /\ B_batch = <<>> /\ ~last.pre.exists) =>
        /\ last.status = "raised"
        /\ ~files[last.fname].exists
        /\ files[last.fname] = last.pre

\* C7's case: a call has raised.
C7_Witness == last.status = "raised" /\ B_batch = <<>> /\ ~last.pre.exists

\* C8: with a file in place, an empty merge succeeds, returns the (key, value)
\* pairs last saved and leaves the file as it was.
C8_RoundTrip ==
    (last.status # "none" /\ B_batch = <<>> /\ last.pre.exists) =>
        /\ last.status = "ok"
        /\ rows_of(last.ret) = rows_of(S_before)
        /\ files[last.fname] = last.pre

\* C8's case: an empty merge has reloaded a store of two records.
C8_Witness ==
    /\ Merged
    /\ B_batch = <<>>
    /\ last.pre.exists
    /\ Len(last.ret) = 2
    /\ Cardinality(keys_of(S_before)) = 2

(***************************************************************************)
(* The claims about the command.                                           *)
(***************************************************************************)
FailedStatus == {"http_error", "api_error", "unexpected"}

\* C9: a page request of a transaction refresh that fails ends the process
\* with the request's exception: nothing is printed, no df_store call has
\* been made by the process and the files are as they were; the pages before
\* it left the files alone too; and once the fetch has raised, no further
\* request is made.
C9_FetchFailure ==
    [][/\ (pc = "tx_pages" /\ Len(requests') = Len(requests) + 1
              /\ resp'.status \in FailedStatus)
          => /\ pc' = "raised"
             /\ it'.state = "raised"
             /\ exc' \in {"HTTPError", "ApiError", "Exception"}
             /\ out' = NoOutput
             /\ last' = NoCall
             /\ files' = files
       /\ (pc = "tx_pages" /\ pc' = "tx_pages") => (files' = files /\ last' = NoCall)
       /\ (pc = "raised" /\ it.state = "raised")
          => /\ requests' \in {requests, <<>>}
             /\ files' = files
             /\ out' = NoOutput]_vars

\* C9's case: a refresh over an existing store whose first page brought
\* records and whose second page request failed.
C9_Witness ==
    /\ pc = "raised"
    /\ it.state = "raised"
    /\ resp.status \in FailedStatus
    /\ Len(requests) = 2
    /\ txs # <<>>
    /\ files[TransactionsFile].exists
    /\ rows_of(txs) \ rows_of(read_feather(files[TransactionsFile])) # {}

\* C10: command_ccr given start >= end ends on its assertion: no remote
\* request is made, no df_store call reads or writes a file, nothing is
\* printed.
C10_InvalidPeriod ==
    [][(args'.command = "ccr" /\ args'.start_period >= args'.end_period)
       => /\ pc' = "raised"
          /\ exc' = "AssertionError"
          /\ requests' = <<>>
          /\ it' = NoIter
          /\ last' = NoCall
          /\ out' = NoOutput
          /\ files' = files
          /\ saved' = saved]_vars

\* C10's case: a refresh asked for start >= end, with stores in place.
C10_Witness ==
    /\ args.command = "ccr"
    /\ args.start_period >= args.end_period
    /\ args.unload_data
    /\ args.api_key
    /\ pc = "raised"
    /\ files[TransactionsFile].exists
    /\ files[ClientsFile].exists

(***************************************************************************)
(* The claims about the retention figures, over a command_ccr call that    *)
(* has returned: the clients and the transactions are the persisted        *)
(* stores, the period is the call's.                                       *)
(***************************************************************************)
Figures == pc = "done" /\ args.command = "ccr"
the_clients == Persisted(ClientsFile)
the_transactions == Persisted(TransactionsFile)

\* The entries of the client collection activated in [lo, hi), by position.
activated_in(lo, hi) ==
    {i \in 1 .. Len(the_clients) :
        to_dtime(lo) <= the_clients[i].activated_at
        /\ the_clients[i].activated_at < to_dtime(hi)}
cohort_at_start ==
    activated_in(args.start_period - (args.end_period - args.start_period),
                 args.start_period)
buys(t) ==
    to_dtime(args.start_period) <= t.closed_at /\ t.closed_at < to_dtime(args.end_period)
churned ==
    {i \in cohort_at_start :
        ~\E j \in 1 .. Len(the_transactions) :
            buys(the_transactions[j]) /\ the_transactions[j].client_id = the_clients[i].id}
\* The transactions that are neither dangling nor outside the period.
relevant_transactions ==
    SelectSeq(the_transactions,
              LAMBDA t : buys(t) /\ t.client_id \in keys_of(the_clients))

\* C11: the clients command_ccr counts as left are exactly the cohort's
\* entries no transaction of the period names; the counts printed are the
\* cohort's and theirs, the CRR printed for a non-empty cohort is
\* (|CS| - |cl_left|) / |CS|; and the same cohort, left clients and CRR
\* come out without the dangling and the out-of-period transactions.
C11_Retention ==
    Figures =>
        LET f == ccr_frames(the_clients, the_transactions,
                            args.start_period, args.end_period)
            g == ccr_report(the_clients, relevant_transactions,
                            args.start_period, args.end_period)
        IN  /\ Len(f.cl_left) = Cardinality(churned)
            /\ rows_of(f.cl_left) = {the_clients[i] : i \in churned}
            /\ rows_of(f.CS) = {the_clients[i] : i \in cohort_at_start}
            /\ out.clients_at_start = Cardinality(cohort_at_start)
            /\ out.clients_left = Cardinality(churned)
            /\ cohort_at_start # {} =>
                  out.CRR = <<Cardinality(cohort_at_start) - Cardinality(churned),
                              Cardinality(cohort_at_start)>>
            /\ g.clients_at_start = out.clients_at_start
            /\ g.clients_left = out.clients_left
            /\ g.CRR = out.CRR

\* C11's case: a cohort of two clients, one kept by a transaction of the
\* period, the other left although a transaction outside the period names it.
C11_Witness ==
    /\ Figures
    /\ Cardinality(cohort_at_start) = 2
    /\ Cardinality(churned) = 1
    /\ \E i \in churned :
          \E j \in 1 .. Len(the_transactions) :
              /\ the_transactions[j].client_id = the_clients[i].id
              /\ ~buys(the_transactions[j])

\* A command_ccr call is made in this step: by main(), or by a step loop.
CallMade ==
    \/ pc = "idle" /\ args'.command = "ccr"
    \/ pc = "loop" /\ Len(loop'.periods) = Len(loop.periods) + 1
\* The report the call of this step has printed.
Printed == IF loop'.mode = "" THEN out' ELSE out'[Len(out')]

\* C12: a command_ccr call that finds both stores and an empty cohort
\* prints its counts and no CRR, and ends without an exception; in a step
\* run it hands the loop its period's end, and the loop, standing after a
\* period without CRR with dates left, calls command_ccr for the period that
\* starts there.
C12_DegenerateCohort ==
    [][/\ (/\ CallMade
           /\ ~args'.unload_data
           /\ args'.start_period < args'.end_period
           /\ files[TransactionsFile].exists /\ files[ClientsFile].exists
           /\ cohort_at_start' = {})
          => /\ exc' = ""
             /\ pc' = IF loop'.mode = "" THEN "done" ELSE "loop"
             /\ loop'.mode # "" => /\ Len(out') = Len(out) + 1
                                   /\ loop'.start_period = args'.end_period
             /\ Printed.period = <<args'.start_period, args'.end_period>>
             /\ Printed.clients_at_start = 0
             /\ Printed.clients_left = 0
             /\ Printed.clients_new =
                   Cardinality(activated_in(args.start_period, args.end_period)')
             /\ Printed.CRR = NoCRR
       /\ (/\ pc = "loop"
           /\ out # <<>>
           /\ out[Len(out)].CRR = NoCRR
           /\ loop.start_period < loop.end_period)
          => /\ CallMade
             /\ args'.start_period = out[Len(out)].period[2]
             /\ args'.start_period = loop.start_period]_vars

\* C12's case: a daily run went on after a period without cohort and found
\* a cohort in the next.
C12_Witness ==
    /\ loop.mode = "daily"
    /\ Len(out) = 2
    /\ out[1].CRR = NoCRR
    /\ out[2].CRR # NoCRR

(***************************************************************************)
(* The claims about the planning of the step commands.                     *)
(***************************************************************************)
\* Months counted from year 0; the first day of a counted month.
month_index(d) == year_of(d) * 12 + (month_of(d) - 1)
first_of(idx) == date(idx \div 12, (idx % 12) + 1, 1)

\* One period per calendar month, from the month of start to the last month
\* that begins before end.
planned_monthly(start, end) ==
    LET m0 == month_index(start)
        n == Cardinality({k \in 0 .. 12 : first_of(m0 + k) < end})
    IN  [i \in 1 .. n |-> <<first_of(m0 + i - 1), first_of(m0 + i)>>]

\* ceil((end - start) / step) periods of step days from start.
planned_daily(start, end, step) ==
    LET n == (end - start + step - 1) \div step
    IN  [i \in 1 .. n |-> <<start + (i - 1) * step, start + i * step>>]

is_prefix(p, q) == Len(p) <= Len(q) /\ \A i \in 1 .. Len(p) : p[i] = q[i]
contiguous(p) == \A i \in 1 .. Len(p) - 1 : p[i][2] = p[i + 1][1]
reported(o) == [i \in 1 .. Len(o) |-> o[i].period]

\* C13: a monthly run given start < end calls command_ccr for the calendar
\* months from start's to the last one beginning before end, in order, once
\* each, each period from the first of a month to the first of the next; it
\* has taken them all, and printed figures for each, when it returns; the
\* last period is whole.  From 2024-01-15 to 2024-03-01 the periods are
\* January and February 2024; a run from December 2023 begins with
\* [2023-12-01, 2024-01-01).
C13_MonthlyPlanning ==
    (loop.mode = "monthly" /\ loop.date_from < loop.end_period) =>
        LET plan == planned_monthly(loop.date_from, loop.end_period)
        IN  /\ is_prefix(loop.periods, plan)
            /\ contiguous(loop.periods)
            /\ is_prefix(reported(out), loop.periods)
            /\ pc = "done" => (loop.periods = plan /\ reported(out) = plan)
            /\ (pc = "done" /\ loop.date_from = date(2024, 1, 15)
                   /\ loop.end_period = date(2024, 3, 1))
                  => loop.periods = << <<0, 31>>, <<31, 60>> >>
            /\ (loop.periods # <<>> /\ loop.date_from = date(2023, 12, 15))
                  => loop.periods[1] = <<-31, 0>>

\* C13's case: a run from 2023-12-15 to 2024-01-15 has taken December and
\* January, the second period ending after the range.
C13_Witness ==
    /\ loop.mode = "monthly"
    /\ pc = "done"
    /\ loop.date_from = date(2023, 12, 15)
    /\ Len(loop.periods) = 2
    /\ loop.periods[2][2] > loop.end_period

\* C14: a daily run given start < end and step >= 1 calls command_ccr for
\* the periods [start + i*step, start + (i+1)*step), i = 0 ..
\* ceil((end-start)/step) - 1, in order; each starts before end, each begins
\* where the one before it ends; when the run returns it has taken them all,
\* from start to end or past it.
C14_DailyPlanning ==
    (loop.mode = "daily" /\ loop.date_from < loop.end_period /\ loop.step >= 1) =>
        LET plan == planned_daily(loop.date_from, loop.end_period, loop.step)
        IN  /\ is_prefix(loop.periods, plan)
            /\ contiguous(loop.periods)
            /\ \A i \in 1 .. Len(loop.periods) :
                  /\ loop.periods[i][1] < loop.end_period
                  /\ loop.periods[i][2] = loop.periods[i][1] + loop.step
            /\ loop.periods # <<>> => loop.periods[1][1] = loop.date_from
            /\ is_prefix(reported(out), loop.periods)
            /\ pc = "done" =>
                  /\ loop.periods = plan
                  /\ reported(out) = plan
                  /\ loop.periods[Len(loop.periods)][2] >= loop.end_period

\* C14's case: a run of two periods whose second ends after the range.
C14_Witness ==
    /\ loop.mode = "daily"
    /\ pc = "done"
    /\ Len(loop.periods) = 2
    /\ loop.periods[2][2] > loop.end_period

(***************************************************************************)
(* The claims about the fetch from a remote side that serves a list.       *)
(***************************************************************************)
\* The page size the remote side uses for the running fetch.
served_per_page == clamp(it.per_page, remote.max_per_page)
first_n(seq, n) == SubSeq(seq, 1, IF n < Len(seq) THEN n ELSE Len(seq))

C15_Walk ==
    it.state \in {"running", "done"} =>
        /\ \A i \in 1 .. Len(requests) : requests[i].page = i
        /\ txs = parse_transactions(first_n(remote.records,
                                            Len(requests) * served_per_page))
        /\ it.state = "running" =>
              /\ Len(requests) * served_per_page <= Len(remote.records)
              /\ Len(requests) < MaxRequests
        /\ it.state = "done" =>
              /\ txs = parse_transactions(remote.records)
              /\ Len(requests) = (Len(remote.records) \div served_per_page) + 1

\* C15: a fetch from a remote side that serves its list in pages of the
\* clamped size has, after each request, yielded the records of the pages
\* so far, in the list's order, each once; it is never held back, it ends,
\* and when it has ended it has yielded the whole list, after one request
\* more than the list has full pages.
C15_Completeness == []C15_Walk /\ ((it.state = "running") ~> (it.state = "done"))

\* C15's case: a list of two full pages of the clamped size, asked for in
\* pages of 500, fetched whole with a last, empty page.
C15_Witness ==
    /\ it.state = "done"
    /\ remote.max_per_page = 2
    /\ Len(remote.records) = 4
    /\ Len(requests) = 3
    /\ resp.count = 0
    /\ resp.per_page = 2
    /\ txs = parse_transactions(remote.records)

(***************************************************************************)
(* The claims about the stores across calls and commands.                  *)
(***************************************************************************)
\* C16: no df_store call, merging, reloading or failing, takes a key out of
\* a persisted store or removes the store's file; so a key persisted after
\* one call is persisted after every later one.
C16_KeyMonotonicity ==
    [][\A f \in FileNames :
          /\ keys_of(Persisted(f)) \subseteq keys_of(Persisted(f))'
          /\ files[f].exists => files'[f].exists]_vars

\* C16's case: a batch merged into a store that held one of its keys and
\* lacked another.
C16_Witness ==
    /\ Merged
    /\ last.pre.exists
    /\ keys_of(B_batch) \cap keys_of(S_before) # {}
    /\ keys_of(B_batch) \ keys_of(S_before) # {}
    /\ keys_of(S_before) \subseteq keys_of(Persisted(last.fname))

\* C17: command_ccr and command_db_info run without refresh make no
\* request and leave both files as they were; with a store absent the
\* process ends on an exception and prints no figure about that store.
C17_NoRefreshFrame ==
    [][(pc = "idle" /\ args'.command \in {"ccr", "db-info"} /\ ~args'.unload_data)
       => /\ requests' = <<>>
          /\ it' = NoIter
          /\ files' = files
          /\ \A f \in FileNames : Persisted(f)' = Persisted(f)
          /\ (\E f \in FileNames : ~files[f].exists)
                => /\ pc' = "raised"
                   /\ args'.command = "ccr" => out' = NoOutput
                   /\ (args'.command = "db-info" /\ ~files[TransactionsFile].exists)
                         => out' = NoOutput
                   /\ (args'.command = "db-info" /\ files[TransactionsFile].exists)
                         => out'.clients = NoOutput]_vars

\* C17's case: command_ccr has printed its figures without refresh over two
\* stores of two records each.
C17_Witness ==
    /\ pc = "done"
    /\ args.command = "ccr"
    /\ ~args.unload_data
    /\ requests = <<>>
    /\ Len(the_clients) = 2
    /\ Len(the_transactions) = 2

\* C18 (as claimed): a step command given start >= end makes no request,
\* calls df_store on no file, takes no period and prints no figures.
C18_InvalidRange ==
    (loop.mode # "" /\ loop.date_from >= loop.end_period) =>
        /\ requests = <<>>
        /\ it = NoIter
        /\ last = NoCall
        /\ loop.periods = <<>>
        /\ out = NoOutput

\* C18 for the daily command alone.
C18_Daily == loop.mode = "daily" => C18_InvalidRange

\* C19 (as claimed): in a step run without refresh, the lookback window of
\* each period after the first is the period before it, and its cohort at
\* start is the new clients of the period before it.
C19_CohortHandOver ==
    (loop.mode # "" /\ ~loop.unload_data) =>
        \A k \in 1 .. Len(loop.periods) - 1 :
            LET p == loop.periods[k]
                q == loop.periods[k + 1]
            IN  /\ q[1] = p[2]
                /\ lookback_start(q[1], q[2]) = p[1]
                /\ ccr_frames(the_clients, the_transactions, q[1], q[2]).CS
                      = ccr_frames(the_clients, the_transactions, p[1], p[2]).CN

\* C19 for the daily command alone.
C19_Daily == loop.mode = "daily" => C19_CohortHandOver

====
